---------------------------- MODULE Spec2Model ----------------------------
(***************************************************************************)
(* TLA+ model of to-ico (src/index.js): the ICO encoder.                   *)
(*                                                                         *)
(* A Buffer is a sequence of bytes; the byte at JavaScript offset o is     *)
(* element o + 1 of the sequence.  A read or write of an offset outside    *)
(* the buffer throws a RangeError in Node, which the model records as      *)
(* threw = TRUE in the result of the function that made the access.        *)
(*                                                                         *)
(* Spec is a call of module.exports on an array of PNG files with          *)
(* opts.resize false (resizeImages, 152-169, is not modelled); PureSpec    *)
(* applies createDib, createMask, createDirectory and createBitmap on      *)
(* their own.                                                              *)
(***************************************************************************)
EXTENDS Integers, Sequences, FiniteSets, TLC

(***************************************************************************)
(* Bounds of the model.                                                    *)
(***************************************************************************)
MaxImages == 2
MaxSmallWidth == 9
MaxSmallHeight == 2
MaxSmallPixels == 9
MaxRgbDim == 3

(***************************************************************************)
(* constants (src/index.js 8-13) and the literals of the code.             *)
(***************************************************************************)
bitmapSize == 40
colorMode == 0
directorySize == 16
headerSize == 6
\* the dimension that createDirectory stores as 0 (lines 29-30)
DimWrap == 256
\* the threshold generateIco passes to createMask (line 143)
IcoThreshold == 1

(***************************************************************************)
(* Node's Buffer.                                                          *)
(***************************************************************************)
bufferAlloc(n) == [i \in 1..n |-> 0]

InRange(buf, offset) == offset >= 0 /\ offset < Len(buf)

readUInt8(buf, offset) == buf[offset + 1]

writeUInt8(buf, value, offset) == [buf EXCEPT ![offset + 1] = value]

writeUInt16LE(buf, value, offset) ==
  [buf EXCEPT ![offset + 1] = value % 256,
              ![offset + 2] = (value \div 256) % 256]

writeUInt32LE(buf, value, offset) ==
  [buf EXCEPT ![offset + 1] = value % 256,
              ![offset + 2] = (value \div 256) % 256,
              ![offset + 3] = (value \div 65536) % 256,
              ![offset + 4] = (value \div 16777216) % 256]

\* two's complement: \div rounds down and % is never negative, so the four
\* bytes of a negative value are those of value + 2^32
writeInt32LE(buf, value, offset) == writeUInt32LE(buf, value, offset)

RECURSIVE ConcatAll(_)
ConcatAll(list) ==
  IF list = <<>> THEN <<>> ELSE Head(list) \o ConcatAll(Tail(list))

\* Buffer.concat(list, totalLength): totalLength bytes, the buffers copied in
\* order until the result is full, what is left zero-filled.
BufferConcat(list, totalLength) ==
  LET all == ConcatAll(list)
  IN  [i \in 1..totalLength |-> IF i <= Len(all) THEN all[i] ELSE 0]

(***************************************************************************)
(* createHeader (15-23)                                                    *)
(***************************************************************************)
createHeader(n) ==
  LET b0 == bufferAlloc(headerSize)
      b1 == writeUInt16LE(b0, 0, 0)
      b2 == writeUInt16LE(b1, 1, 2)
  IN  writeUInt16LE(b2, n, 4)

(***************************************************************************)
(* getMaskScanWidth (90): ((width + 31) >> 5) << 2                         *)
(***************************************************************************)
getMaskScanWidth(width) == ((width + 31) \div 32) * 4

(***************************************************************************)
(* createDirectory (25-43).  data is a decoded image                       *)
(* [width, height, bpp, data]; the result is { buf, size }.                *)
(***************************************************************************)
EncodeDimUnwrapped(d) == d

EncodeDim(d) == IF d = DimWrap THEN 0 ELSE d

DirectorySize(data) ==
  LET mask == IF data.bpp = 4
              THEN getMaskScanWidth(data.width) * data.height
              ELSE 0
  IN  Len(data.data) + bitmapSize + mask

createDirectory(data, offset) ==
  LET size == DirectorySize(data)
      width == EncodeDim(data.width)
      height == EncodeDim(data.height)
      bpp == data.bpp * 8
      b0 == bufferAlloc(directorySize)
      b1 == writeUInt8(b0, width, 0)
      b2 == writeUInt8(b1, height, 1)
      b3 == writeUInt8(b2, 0, 2)
      b4 == writeUInt8(b3, 0, 3)
      b5 == writeUInt16LE(b4, 1, 4)
      b6 == writeUInt16LE(b5, bpp, 6)
      b7 == writeUInt32LE(b6, size, 8)
      b8 == writeUInt32LE(b7, offset, 12)
  IN  [buf |-> b8, size |-> size]

(***************************************************************************)
(* createBitmap (45-61)                                                    *)
(***************************************************************************)
createBitmap(data, compression) ==
  LET b0 == bufferAlloc(bitmapSize)
      b1 == writeUInt32LE(b0, bitmapSize, 0)
      b2 == writeInt32LE(b1, data.width, 4)
      b3 == writeInt32LE(b2, data.height * 2, 8)
      b4 == writeUInt16LE(b3, 1, 12)
      b5 == writeUInt16LE(b4, data.bpp * 8, 14)
      b6 == writeUInt32LE(b5, compression, 16)
      b7 == writeUInt32LE(b6, Len(data.data), 20)
      b8 == writeInt32LE(b7, 0, 24)
      b9 == writeInt32LE(b8, 0, 28)
      b10 == writeUInt32LE(b9, 0, 32)
  IN  writeUInt32LE(b10, 0, 36)

(***************************************************************************)
(* createDib (63-88).  The loops visit the pixels in order: pixel k, of    *)
(* width * height, is the one at row = (k \div width) * cols and           *)
(* col = (k % width) * bpp.  For each the code reads the four bytes        *)
(* pos .. pos+3 of data and writes the four bytes pos' .. pos'+3 of buf,   *)
(* whatever bpp is; an access outside a buffer throws.  d is [threw, buf]. *)
(***************************************************************************)
dibPixel(data, d, k, width, height, bpp) ==
  LET cols == width * bpp
      rows == height * cols
      end == rows - cols
      row == (k \div width) * cols
      col == (k % width) * bpp
      pos == row + col
      dst == (end - row) + col
  IN  IF ~InRange(data, pos) \/ ~InRange(data, pos + 3)
         \/ ~InRange(d.buf, dst) \/ ~InRange(d.buf, dst + 3)
      THEN [threw |-> TRUE, buf |-> <<>>]
      ELSE
        LET r == readUInt8(data, pos)
            g == readUInt8(data, pos + 1)
            b == readUInt8(data, pos + 2)
            a == readUInt8(data, pos + 3)
        IN  [threw |-> FALSE,
             buf |-> [d.buf EXCEPT ![dst + 1] = b, ![dst + 2] = g,
                                   ![dst + 3] = r, ![dst + 4] = a]]

\* pixels lo .. hi-1, in order (the range is halved to keep the evaluation
\* shallow; the order of the steps is that of the loops)
RECURSIVE dibPixels(_, _, _, _, _, _, _)
dibPixels(data, d, lo, hi, width, height, bpp) ==
  IF d.threw \/ lo >= hi THEN d
  ELSE IF hi = lo + 1 THEN dibPixel(data, d, lo, width, height, bpp)
  ELSE
    LET mid == (lo + hi) \div 2
        first == dibPixels(data, d, lo, mid, width, height, bpp)
    IN  dibPixels(data, first, mid, hi, width, height, bpp)

createDib(data, width, height, bpp) ==
  dibPixels(data, [threw |-> FALSE, buf |-> bufferAlloc(Len(data))],
            0, width * height, width, height, bpp)

(***************************************************************************)
(* createMask (92-123).  The loop state is s = [buf, srcPos, dstPos,       *)
(* threw]; srcPos starts at 3 and runs on from row to row.                 *)
(***************************************************************************)
Pow2(n) == 2 ^ n

PartialBitLowFirst(x) == Pow2(x)

\* Math.pow(2, 7 - x) (line 115)
PartialBit(x) == Pow2(7 - x)

\* readUInt8(srcPos) >= threshold (lines 100-107, 115)
IsOpaque(alpha, threshold) == alpha >= threshold

MaskBit(data, srcPos, threshold, weight) ==
  IF IsOpaque(readUInt8(data, srcPos), threshold) THEN 0 ELSE weight

\* lines 99-109: one mask byte for each full group of 8 pixels
RECURSIVE maskFullGroups(_, _, _, _, _)
maskFullGroups(data, width, threshold, x, s) ==
  IF s.threw \/ ~(x < width - 7) THEN s
  ELSE IF ~InRange(data, s.srcPos) \/ ~InRange(data, s.srcPos + 28)
          \/ ~InRange(s.buf, s.dstPos)
  THEN [s EXCEPT !.threw = TRUE]
  ELSE
    LET mask == MaskBit(data, s.srcPos, threshold, 128)
              + MaskBit(data, s.srcPos + 4, threshold, 64)
              + MaskBit(data, s.srcPos + 8, threshold, 32)
              + MaskBit(data, s.srcPos + 12, threshold, 16)
              + MaskBit(data, s.srcPos + 16, threshold, 8)
              + MaskBit(data, s.srcPos + 20, threshold, 4)
              + MaskBit(data, s.srcPos + 24, threshold, 2)
              + MaskBit(data, s.srcPos + 28, threshold, 1)
    IN  maskFullGroups(data, width, threshold, x + 8,
                       [s EXCEPT !.buf = writeUInt8(s.buf, mask, s.dstPos),
                                 !.dstPos = s.dstPos + 1,
                                 !.srcPos = s.srcPos + 32])

\* lines 114-116: the bits of the last, partial byte; m is [mask, srcPos, threw]
RECURSIVE maskPartialBits(_, _, _, _, _)
maskPartialBits(data, width, threshold, x, m) ==
  IF m.threw \/ ~(x < width % 8) THEN m
  ELSE IF ~InRange(data, m.srcPos) THEN [m EXCEPT !.threw = TRUE]
  ELSE maskPartialBits(data, width, threshold, x + 1,
         [m EXCEPT !.mask = m.mask + MaskBit(data, m.srcPos, threshold, PartialBit(x)),
                   !.srcPos = m.srcPos + 4])

\* lines 111-119
maskPartial(data, width, threshold, s) ==
  IF s.threw \/ width % 8 = 0 THEN s
  ELSE
    LET m == maskPartialBits(data, width, threshold, 0,
                             [mask |-> 0, srcPos |-> s.srcPos, threw |-> FALSE])
    IN  IF m.threw \/ ~InRange(s.buf, s.dstPos)
        THEN [s EXCEPT !.threw = TRUE]
        ELSE [s EXCEPT !.buf = writeUInt8(s.buf, m.mask, s.dstPos),
                       !.srcPos = m.srcPos]

\* lines 96-119: row y
maskRow(data, width, threshold, scanWidth, y, s) ==
  LET s0 == [s EXCEPT !.dstPos = y * scanWidth]
      s1 == maskFullGroups(data, width, threshold, 0, s0)
  IN  maskPartial(data, width, threshold, s1)

\* rows lo .. hi-1, in order (halved as in dibPixels)
RECURSIVE maskRows(_, _, _, _, _, _, _)
maskRows(data, width, threshold, scanWidth, lo, hi, s) ==
  IF s.threw \/ lo >= hi THEN s
  ELSE IF hi = lo + 1 THEN maskRow(data, width, threshold, scanWidth, lo, s)
  ELSE
    LET mid == (lo + hi) \div 2
        first == maskRows(data, width, threshold, scanWidth, lo, mid, s)
    IN  maskRows(data, width, threshold, scanWidth, mid, hi, first)

createMask(data, width, height, threshold) ==
  LET scanWidth == getMaskScanWidth(width)
      s == maskRows(data, width, threshold, scanWidth, 0, height,
                    [buf |-> bufferAlloc(scanWidth * height), srcPos |-> 3,
                     dstPos |-> 0, threw |-> FALSE])
  IN  IF s.threw THEN [threw |-> TRUE, buf |-> <<>>]
      ELSE [threw |-> FALSE, buf |-> s.buf]

(***************************************************************************)
(* The callback of generateIco (126-149), run on the array of decoded      *)
(* images.  The result is [threw, arr, len, buf]: arr and len as they are  *)
(* when the callback returns or throws.                                    *)
(***************************************************************************)
\* lines 133-138; d is [arr, len, offset]
RECURSIVE directoryLoop(_, _, _)
directoryLoop(data, i, d) ==
  IF i > Len(data) THEN d
  ELSE
    LET dir == createDirectory(data[i], d.offset)
    IN  directoryLoop(data, i + 1,
                      [arr |-> Append(d.arr, dir.buf),
                       len |-> d.len + Len(dir.buf),
                       offset |-> d.offset + dir.size])

\* lines 140-146; b is [threw, arr, len]
RECURSIVE bitmapLoop(_, _, _)
bitmapLoop(data, i, b) ==
  IF b.threw \/ i > Len(data) THEN b
  ELSE
    LET x == data[i]
        header == createBitmap(x, colorMode)
        dib == createDib(x.data, x.width, x.height, x.bpp)
        mask == IF dib.threw THEN dib
                ELSE IF x.bpp = 4
                     THEN createMask(dib.buf, x.width, x.height, IcoThreshold)
                     ELSE [threw |-> FALSE, buf |-> bufferAlloc(0)]
    IN  IF dib.threw \/ mask.threw
        THEN [b EXCEPT !.threw = TRUE]
        ELSE bitmapLoop(data, i + 1,
                        [threw |-> FALSE,
                         arr |-> b.arr \o <<header, dib.buf, mask.buf>>,
                         len |-> b.len + Len(header) + Len(dib.buf) + Len(mask.buf)])

icoCallback(data) ==
  LET header == createHeader(Len(data))
      d == directoryLoop(data, 1,
                         [arr |-> <<header>>, len |-> Len(header),
                          offset |-> headerSize + (directorySize * Len(data))])
      b == bitmapLoop(data, 1, [threw |-> FALSE, arr |-> d.arr, len |-> d.len])
  IN  [threw |-> b.threw, arr |-> b.arr, len |-> b.len,
       buf |-> IF b.threw THEN <<>> ELSE BufferConcat(b.arr, b.len)]

(***************************************************************************)
(* Inputs.  A source file is modelled by what parsePng makes of it:        *)
(* [valid, png], png the decoded image { width, height, bpp, data }.       *)
(* Byte k of the pixel data is a function of k, so that a moved byte       *)
(* shows; the alpha of the pixels in zeroAlpha is 0, of the others 255.    *)
(***************************************************************************)
PixelByte(k, bpp, zeroAlpha) ==
  IF bpp = 4 /\ k % 4 = 3
  THEN (IF (k \div 4) \in zeroAlpha THEN 0 ELSE 255)
  ELSE (k * 7 + 13) % 256

Image(width, height, bpp, len, zeroAlpha) ==
  [width |-> width, height |-> height, bpp |-> bpp,
   data |-> [i \in 1..len |-> PixelByte(i - 1, bpp, zeroAlpha)]]

EveryThird(n) == {p \in 0..(n - 1) : p % 3 = 0}

\* an image whose buffer holds len bytes
Png(width, height, bpp, len) ==
  Image(width, height, bpp, len, EveryThird(width * height))

NoImage == [width |-> 0, height |-> 0, bpp |-> 0, data |-> <<>>]

Source(png) == [valid |-> TRUE, png |-> png]

BadSource == [valid |-> FALSE, png |-> NoImage]

\* the length the data model gives the pixel buffer of an image
ExactLength(x) == Len(x.data) = x.width * x.height * x.bpp

Sources ==
  { Source(Png(1, 1, 4, 4)),
    Source(Png(2, 3, 4, 24)),
    Source(Png(9, 2, 4, 72)),
    Source(Png(256, 1, 4, 1024)),
    Source(Png(2, 2, 3, 12)),
    \* 3 bytes per pixel declared, 4 delivered
    Source(Png(2, 2, 3, 16)),
    \* a buffer longer, and one shorter, than width * height * bpp
    Source(Png(1, 1, 4, 8)),
    Source(Png(2, 1, 4, 4)),
    BadSource }

RECURSIVE SeqsUpTo(_, _)
SeqsUpTo(S, n) ==
  IF n = 0 THEN {<<>>}
  ELSE LET shorter == SeqsUpTo(S, n - 1)
       IN  shorter \cup {Append(q, x) : q \in shorter, x \in S}

(***************************************************************************)
(* State.                                                                  *)
(***************************************************************************)
VARIABLES
  input,       \* the source files handed to module.exports
  pc,          \* "idle" before the call, "called" after
  parseCalls,  \* parseCalls[i]: how often parsePng was called on input[i]
  decode,      \* decode[i]: state of the promise parsePng(input[i])
  values,      \* Promise.all's array of results
  remaining,   \* Promise.all's count of unresolved elements
  allState,    \* state of the promise of Promise.all
  outState,    \* state of the promise generateIco returns
  outBuf,      \* the buffer it is fulfilled with
  outError,    \* what it is rejected with
  arr,         \* the callback's arr when it returned or threw
  completion,  \* history: the indices in the order their decodes settled
  fnImage,     \* pure functions: the image a function is applied to
  fnCall,      \*   the function applied
  fnArg,       \*   its threshold or offset
  fnRet        \*   what it returned: [threw, buf, size]

icoVars == <<input, pc, parseCalls, decode, values, remaining, allState,
             outState, outBuf, outError, arr, completion>>
fnVars == <<fnImage, fnCall, fnArg, fnRet>>
vars == <<input, pc, parseCalls, decode, values, remaining, allState,
          outState, outBuf, outError, arr, completion,
          fnImage, fnCall, fnArg, fnRet>>

N == Len(input)

NoRet == [threw |-> FALSE, buf |-> <<>>, size |-> 0]

IcoIdle ==
  /\ pc = "idle"
  /\ parseCalls = [i \in 1..N |-> 0]
  /\ decode = [i \in 1..N |-> "idle"]
  /\ values = [i \in 1..N |-> NoImage]
  /\ remaining = N
  /\ allState = "idle"
  /\ outState = "idle"
  /\ outBuf = <<>>
  /\ outError = "none"
  /\ arr = <<>>
  /\ completion = <<>>

FnIdle ==
  /\ fnCall = "none"
  /\ fnArg = 0
  /\ fnRet = NoRet

Init ==
  /\ input \in SeqsUpTo(Sources, MaxImages)
  /\ IcoIdle
  /\ fnImage = NoImage
  /\ FnIdle

(***************************************************************************)
(* parsePng, the decoder (required at line 5, called at line 126).         *)
(***************************************************************************)
parsePng(x) == IF x.valid THEN "fulfilled" ELSE "rejected"

(***************************************************************************)
(* module.exports (171-184) with opts.resize false, which is               *)
(* generateIco(arrify(input)) (125-126): parsePng is called on every       *)
(* source, Promise.all on the promises, then on its promise.               *)
(* Promise.all of no promise is fulfilled at once.                         *)
(***************************************************************************)
Export ==
  /\ pc = "idle"
  /\ pc' = "called"
  /\ parseCalls' = [i \in 1..N |-> parseCalls[i] + 1]
  /\ decode' = [i \in 1..N |-> "pending"]
  /\ allState' = IF N = 0 THEN "fulfilled" ELSE "pending"
  /\ outState' = "pending"
  /\ UNCHANGED <<input, values, remaining, outBuf, outError, arr, completion,
                 fnVars>>

\* Promise.all's resolve element function: the value goes to the index of
\* its promise
PromiseAllByCompletion(vals, index, value) ==
  LET free == {j \in 1..Len(vals) : vals[j] = NoImage}
      first == CHOOSE j \in free : \A k \in free : j <= k
  IN  [vals EXCEPT ![first] = value]

PromiseAllResolveElement(vals, index, value) == [vals EXCEPT ![index] = value]

\* parsePng(input[i]) is fulfilled, and Promise.all takes its value
ParseResolve(i) ==
  /\ pc = "called"
  /\ decode[i] = "pending"
  /\ completion' = Append(completion, i)
  /\ parsePng(input[i]) = "fulfilled"
  /\ decode' = [decode EXCEPT ![i] = "fulfilled"]
  /\ values' = PromiseAllResolveElement(values, i, input[i].png)
  /\ remaining' = remaining - 1
  /\ allState' = IF allState = "pending" /\ remaining' = 0
                 THEN "fulfilled" ELSE allState
  /\ UNCHANGED <<input, pc, parseCalls, outState, outBuf, outError, arr, fnVars>>

\* a rejection counted as a result: the promise of Promise.all stays
\* pending and is fulfilled when nothing remains
ParseRejectSwallowed(i) ==
  /\ pc = "called"
  /\ decode[i] = "pending"
  /\ completion' = Append(completion, i)
  /\ parsePng(input[i]) = "rejected"
  /\ decode' = [decode EXCEPT ![i] = "rejected"]
  /\ remaining' = remaining - 1
  /\ allState' = IF allState = "pending" /\ remaining' = 0
                 THEN "fulfilled" ELSE allState
  /\ UNCHANGED <<input, pc, parseCalls, values, outState, outBuf, outError,
                 arr, fnVars>>

\* parsePng(input[i]) is rejected, and Promise.all's promise with it
ParseReject(i) ==
  /\ pc = "called"
  /\ decode[i] = "pending"
  /\ completion' = Append(completion, i)
  /\ parsePng(input[i]) = "rejected"
  /\ decode' = [decode EXCEPT ![i] = "rejected"]
  /\ allState' = IF allState = "pending" THEN "rejected" ELSE allState
  /\ UNCHANGED <<input, pc, parseCalls, values, remaining, outState, outBuf,
                 outError, arr, fnVars>>

\* .then(data => ...) (126-149): the callback runs on Promise.all's values;
\* what it returns fulfils, what it throws rejects, the promise generateIco
\* returned
ThenFulfilled ==
  /\ allState = "fulfilled"
  /\ outState = "pending"
  /\ LET r == icoCallback(values)
     IN  /\ arr' = r.arr
         /\ outState' = IF r.threw THEN "rejected" ELSE "fulfilled"
         /\ outBuf' = r.buf
         /\ outError' = IF r.threw THEN "RangeError" ELSE "none"
  /\ UNCHANGED <<input, pc, parseCalls, decode, values, remaining, allState,
                 completion, fnVars>>

\* .then without a rejection handler passes the rejection on
ThenRejected ==
  /\ allState = "rejected"
  /\ outState = "pending"
  /\ outState' = "rejected"
  /\ outError' = "DecodeFailure"
  /\ UNCHANGED <<input, pc, parseCalls, decode, values, remaining, allState,
                 outBuf, arr, completion, fnVars>>

Next ==
  \/ Export
  \/ \E i \in 1..N : ParseResolve(i)
  \/ \E i \in 1..N : ParseReject(i)
  \/ ThenFulfilled
  \/ ThenRejected

Spec == Init /\ [][Next]_vars

\* the reaction to a rejected promise is a job of the job queue, which runs it
FairSpec == Spec /\ WF_vars(ThenRejected)

(***************************************************************************)
(* The functions on their own: PureSpec draws an image and applies one     *)
(* function to it (createDib a second time to its own result).             *)
(***************************************************************************)
\* 4 bytes per pixel, every choice of the pixels whose alpha is 0
SmallImages ==
  UNION { { Image(w, h, 4, w * h * 4, z) : z \in SUBSET (0..(w * h - 1)) } :
          <<w, h>> \in { d \in (1..MaxSmallWidth) \X (1..MaxSmallHeight) :
                           d[1] * d[2] <= MaxSmallPixels } }

\* 3 and 4 bytes per pixel, a few rows and columns
RgbImages ==
  { Png(w, h, bpp, w * h * bpp) :
      w \in 1..MaxRgbDim, h \in 1..MaxRgbDim, bpp \in {3, 4} }

\* one row or one column of every width and height there is
StripImages ==
  { Png(w, 1, 4, w * 4) : w \in 1..DimWrap }
    \cup { Png(1, h, 4, h * 4) : h \in 1..DimWrap }
    \cup { Png(DimWrap, 1, 3, DimWrap * 3), Png(1, DimWrap, 3, DimWrap * 3) }

\* rows of more than one 32-bit word
WideImages == { Png(w, 2, 4, w * 8) : w \in {31, 32, 33, 63, 64, 65} }

PureImages == SmallImages \cup RgbImages \cup StripImages \cup WideImages

Thresholds == {0, 1, 255, 256}

Offsets == {22, 1150, 16909060}

PureInit ==
  /\ input = <<>>
  /\ IcoIdle
  /\ fnImage \in PureImages
  /\ FnIdle

Ret(r) == [threw |-> r.threw, buf |-> r.buf, size |-> 0]

CallCreateDib ==
  /\ fnCall = "none"
  /\ fnCall' = "createDib"
  /\ fnRet' = Ret(createDib(fnImage.data, fnImage.width, fnImage.height,
                            fnImage.bpp))
  /\ UNCHANGED <<fnImage, fnArg, icoVars>>

CallCreateDibAgain ==
  /\ fnCall = "createDib"
  /\ ~fnRet.threw
  /\ fnCall' = "createDibAgain"
  /\ fnRet' = Ret(createDib(fnRet.buf, fnImage.width, fnImage.height,
                            fnImage.bpp))
  /\ UNCHANGED <<fnImage, fnArg, icoVars>>

CallCreateMask(threshold) ==
  /\ fnCall = "none"
  /\ fnImage.bpp = 4
  /\ fnCall' = "createMask"
  /\ fnArg' = threshold
  /\ fnRet' = Ret(createMask(fnImage.data, fnImage.width, fnImage.height,
                             threshold))
  /\ UNCHANGED <<fnImage, icoVars>>

CallCreateDirectory(offset) ==
  /\ fnCall = "none"
  /\ fnCall' = "createDirectory"
  /\ fnArg' = offset
  /\ LET dir == createDirectory(fnImage, offset)
     IN  fnRet' = [threw |-> FALSE, buf |-> dir.buf, size |-> dir.size]
  /\ UNCHANGED <<fnImage, icoVars>>

CallCreateBitmap ==
  /\ fnCall = "none"
  /\ fnCall' = "createBitmap"
  /\ fnRet' = [threw |-> FALSE, buf |-> createBitmap(fnImage, colorMode),
               size |-> 0]
  /\ UNCHANGED <<fnImage, fnArg, icoVars>>

PureNext ==
  \/ CallCreateDib
  \/ CallCreateDibAgain
  \/ \E t \in Thresholds : CallCreateMask(t)
  \/ \E o \in Offsets : CallCreateDirectory(o)
  \/ CallCreateBitmap

PureSpec == PureInit /\ [][PureNext]_vars

(***************************************************************************)
(* What the claims speak of, read back from the bytes of a buffer and      *)
(* computed from the images as the specification states it.                *)
(***************************************************************************)
U8(buf, o) == buf[o + 1]
U16(buf, o) == buf[o + 1] + 256 * buf[o + 2]
U32(buf, o) ==
  buf[o + 1] + 256 * buf[o + 2] + 65536 * buf[o + 3] + 16777216 * buf[o + 4]
Slice(buf, o, n) == SubSeq(buf, o + 1, o + n)

CeilDiv(a, b) == IF a % b = 0 THEN a \div b ELSE (a \div b) + 1
ExpScanWidth(width) == CeilDiv(width, 32) * 4
ExpMaskLen(x) == IF x.bpp = 4 THEN ExpScanWidth(x.width) * x.height ELSE 0
ExpBlockSize(x) == 40 + Len(x.data) + ExpMaskLen(x)
ExpDim(d) == IF d = 256 THEN 0 ELSE d

RECURSIVE SumBlockSizes(_, _)
SumBlockSizes(imgs, n) ==
  IF n = 0 THEN 0 ELSE SumBlockSizes(imgs, n - 1) + ExpBlockSize(imgs[n])

ExpOffset(imgs, i) == 6 + 16 * Len(imgs) + SumBlockSizes(imgs, i - 1)

\* the pixel array of x bottom-up, each pixel B,G,R[,A]
ExpDib(x) ==
  LET stride == x.width * x.bpp
  IN  [k \in 1..Len(x.data) |->
         LET row == (k - 1) \div stride
             pix == ((k - 1) % stride) \div x.bpp
             ch == ((k - 1) % stride) % x.bpp
             from == IF ch = 0 THEN 2 ELSE IF ch = 2 THEN 0 ELSE ch
         IN  x.data[(x.height - 1 - row) * stride + pix * x.bpp + from + 1]]

\* bit 7 - b of byte j of row y of the mask of the 4-byte pixels in pixels
ExpMaskBit(pixels, width, threshold, y, j, b) ==
  LET x == 8 * j + b
  IN  IF x < width /\ pixels[(y * width + x) * 4 + 4] < threshold
      THEN 2 ^ (7 - b) ELSE 0

ExpMaskByte(pixels, width, threshold, y, j) ==
  ExpMaskBit(pixels, width, threshold, y, j, 0)
  + ExpMaskBit(pixels, width, threshold, y, j, 1)
  + ExpMaskBit(pixels, width, threshold, y, j, 2)
  + ExpMaskBit(pixels, width, threshold, y, j, 3)
  + ExpMaskBit(pixels, width, threshold, y, j, 4)
  + ExpMaskBit(pixels, width, threshold, y, j, 5)
  + ExpMaskBit(pixels, width, threshold, y, j, 6)
  + ExpMaskBit(pixels, width, threshold, y, j, 7)

ExpMask(pixels, width, height, threshold) ==
  LET scan == ExpScanWidth(width)
  IN  [k \in 1..(scan * height) |->
         ExpMaskByte(pixels, width, threshold, (k - 1) \div scan, (k - 1) % scan)]

Decoded == [i \in 1..N |-> input[i].png]

Settled == outState \in {"fulfilled", "rejected"}

AllDecodable == \A i \in 1..N : input[i].valid

\* every source decodes to an image of the data model: dimensions in
\* 1..256, 3 or 4 bytes per pixel, width * height * bpp bytes
ValidInput ==
  \A i \in 1..N :
    /\ input[i].valid
    /\ input[i].png.width \in 1..256
    /\ input[i].png.height \in 1..256
    /\ input[i].png.bpp \in {3, 4}
    /\ ExactLength(input[i].png)

\* directory entry i and block i of buf, for the images imgs
EntryOf(i) == 6 + 16 * (i - 1)

EntryDescribes(buf, imgs, i) ==
  /\ U8(buf, EntryOf(i)) = ExpDim(imgs[i].width)
  /\ U8(buf, EntryOf(i) + 1) = ExpDim(imgs[i].height)
  /\ U16(buf, EntryOf(i) + 6) = imgs[i].bpp * 8
  /\ U32(buf, EntryOf(i) + 8) = ExpBlockSize(imgs[i])
  /\ U32(buf, EntryOf(i) + 12) = ExpOffset(imgs, i)

HeaderDeclares(buf, at, x) ==
  /\ U32(buf, at) = 40
  /\ U32(buf, at + 4) = x.width
  /\ U32(buf, at + 8) = 2 * x.height
  /\ U16(buf, at + 12) = 1
  /\ U16(buf, at + 14) = x.bpp * 8
  /\ U32(buf, at + 16) = 0
  /\ U32(buf, at + 20) = Len(x.data)

\* the block of x is at offset at: its header, its pixel array, its mask
BlockDescribes(buf, at, x) ==
  /\ Len(buf) >= at + ExpBlockSize(x)
  /\ HeaderDeclares(buf, at, x)
  /\ ExactLength(x) => Slice(buf, at + 40, Len(x.data)) = ExpDib(x)
  /\ (ExactLength(x) /\ x.bpp = 4) =>
       Slice(buf, at + 40 + Len(x.data), ExpMaskLen(x))
         = ExpMask(ExpDib(x), x.width, x.height, 1)

(***************************************************************************)
(* C1.  For every list of decoded images (width, height in 1..256, 3 or 4  *)
(* bytes per pixel) generateIco returns a buffer in which directory entry  *)
(* i has fileOffset = 6 + 16 * N + (the block sizes of the entries before  *)
(* it) and sizeInBytes = 40 + pixel array length + mask length, and block  *)
(* i (bitmap header, pixel array, mask) starts at that offset and has      *)
(* that length.                                                            *)
(***************************************************************************)
C1_OffsetsAndSizes ==
  (ValidInput /\ Settled) =>
    /\ outState = "fulfilled"
    /\ \A i \in 1..N :
         /\ U32(outBuf, EntryOf(i) + 12) = ExpOffset(Decoded, i)
         /\ U32(outBuf, EntryOf(i) + 8) = ExpBlockSize(Decoded[i])
         /\ BlockDescribes(outBuf, U32(outBuf, EntryOf(i) + 12), Decoded[i])
    /\ Len(outBuf) = ExpOffset(Decoded, N + 1)

(***************************************************************************)
(* C2.  For all valid inputs of N >= 0 images the buffer generateIco       *)
(* returns has length 6 + 16 * N + the sum of 40 + pixelArrayLen_i +       *)
(* maskLen_i, with maskLen_i = ceil(width_i / 32) * 4 * height_i for 4     *)
(* bytes per pixel and 0 for 3; no image gives the 6-byte header, with     *)
(* count 0, alone.                                                         *)
(***************************************************************************)
C2_OutputLength ==
  (ValidInput /\ Settled) =>
    /\ outState = "fulfilled"
    /\ Len(outBuf) = 6 + 16 * N + SumBlockSizes(Decoded, N)
    /\ N = 0 => outBuf = <<0, 0, 1, 0, 0, 0>>

(***************************************************************************)
(* C3.  Whatever the order in which the decodes complete, the outcome is   *)
(* that of decoding one image after the other: directory entry i and       *)
(* block i of the output describe input image i.                           *)
(***************************************************************************)
C3_OrderPreserved ==
  (AllDecodable /\ Settled) =>
    LET seq == icoCallback(Decoded)
    IN  /\ (outState = "rejected") = seq.threw
        /\ outBuf = seq.buf
        /\ outState = "fulfilled" =>
             \A i \in 1..N :
               /\ EntryDescribes(outBuf, Decoded, i)
               /\ BlockDescribes(outBuf, ExpOffset(Decoded, i), Decoded[i])

C3_Witness ==
  /\ outState = "fulfilled"
  /\ N = 2
  /\ completion = <<2, 1>>
  /\ input[1].png.width # input[2].png.width
  /\ ExactLength(input[1].png) /\ ExactLength(input[2].png)

(***************************************************************************)
(* C4.  If the decode of one image fails the call fails: no header, entry  *)
(* or block is assembled and no buffer is delivered, whatever the other    *)
(* decodes do and in whatever order; the returned promise is rejected with *)
(* the decode failure; and parsePng is called once on each source.         *)
(***************************************************************************)
DecodeFailed == \E i \in 1..N : decode[i] = "rejected"

C4_FailsAtomically ==
  /\ [](\A i \in 1..N : parseCalls[i] <= 1)
  /\ [](DecodeFailed =>
          /\ outState # "fulfilled"
          /\ outBuf = <<>>
          /\ arr = <<>>
          /\ outState = "rejected" => outError = "DecodeFailure")
  /\ (DecodeFailed ~> (outState = "rejected"))

C4_Witness ==
  /\ N = 2
  /\ completion = <<1, 2>>
  /\ decode[1] = "fulfilled"
  /\ decode[2] = "rejected"
  /\ outState = "rejected"

(***************************************************************************)
(* C5.  For every pixel buffer of width * height * bpp bytes, bpp 3 or 4,  *)
(* createDib returns a buffer of the same length with source row r at      *)
(* destination row height - 1 - r and the first and third byte of every    *)
(* pixel swapped, reading and writing for a pixel none but its own bpp     *)
(* bytes.                                                                  *)
(***************************************************************************)
C5_DibTransposes ==
  (fnCall = "createDib" /\ ExactLength(fnImage)) =>
    /\ ~fnRet.threw
    /\ fnRet.buf = ExpDib(fnImage)

(***************************************************************************)
(* C6.  For every 4-byte-per-pixel buffer, width in 1..256, and every      *)
(* threshold >= 0, createMask returns scanWidth * height bytes, scanWidth  *)
(* = ceil(width / 32) * 4, where bit 7 - (x mod 8) of byte x div 8 of row  *)
(* y is 1 iff the alpha of pixel (x, y) is < threshold, and every bit of   *)
(* no pixel is 0.                                                          *)
(***************************************************************************)
C6_MaskBits ==
  fnCall = "createMask" =>
    /\ ~fnRet.threw
    /\ Len(fnRet.buf) = ExpScanWidth(fnImage.width) * fnImage.height
    /\ fnRet.buf = ExpMask(fnImage.data, fnImage.width, fnImage.height, fnArg)

C6_Witness ==
  /\ fnCall = "createMask"
  /\ fnImage.width = 9
  /\ fnArg = 1
  /\ fnRet.buf = <<65, 128, 0, 0>>

(***************************************************************************)
(* C7.  In a directory entry the width byte is 0 for width 256 and the     *)
(* width for 1..255, and the height byte likewise for the height.          *)
(***************************************************************************)
C7_DimensionBytes ==
  fnCall = "createDirectory" =>
    /\ U8(fnRet.buf, 0) = (IF fnImage.width = 256 THEN 0 ELSE fnImage.width)
    /\ U8(fnRet.buf, 1) = (IF fnImage.height = 256 THEN 0 ELSE fnImage.height)

C7_Witness ==
  /\ fnCall = "createDirectory"
  /\ fnImage.width = 256
  /\ fnImage.height = 1
  /\ U8(fnRet.buf, 0) = 0
  /\ U8(fnRet.buf, 1) = 1

(***************************************************************************)
(* C8.  createDib applied twice, with the same width, height and bpp (3    *)
(* or 4), gives back the buffer it started from.                           *)
(***************************************************************************)
C8_DibInvolution ==
  ExactLength(fnImage) =>
    /\ fnCall = "createDib" => ~fnRet.threw
    /\ fnCall = "createDibAgain" => (~fnRet.threw /\ fnRet.buf = fnImage.data)

(***************************************************************************)
(* C9.  A call given a decoded image whose buffer is not of width *        *)
(* height * bpp bytes is rejected with InvalidBufferLength and never       *)
(* returns a buffer.                                                       *)
(***************************************************************************)
LengthMismatch == \E i \in 1..N : input[i].valid /\ ~ExactLength(input[i].png)

C9_LengthChecked ==
  (AllDecodable /\ LengthMismatch) =>
    /\ outState # "fulfilled"
    /\ outBuf = <<>>
    /\ outState = "rejected" => outError = "InvalidBufferLength"

(***************************************************************************)
(* C10.  For every image, of 3 as of 4 bytes per pixel, the bitmap header  *)
(* in front of its pixel array declares headerSize 40, its width, twice    *)
(* its height, planes 1, bitCount bpp * 8, compression 0 and imageSize the *)
(* length of the pixel array that follows, and its directory entry the     *)
(* same bitCount.                                                          *)
(***************************************************************************)
C10_BitmapHeader ==
  (ValidInput /\ Settled) =>
    /\ outState = "fulfilled"
    /\ \A i \in 1..N :
         LET at == ExpOffset(Decoded, i)
         IN  /\ HeaderDeclares(outBuf, at, Decoded[i])
             /\ U32(outBuf, at + 20)
                  = U32(outBuf, EntryOf(i) + 8) - 40 - ExpMaskLen(Decoded[i])
             /\ U16(outBuf, EntryOf(i) + 6) = U16(outBuf, at + 14)

(***************************************************************************)
(* What does hold where C1, C2, C5, C8 and C10 fail.  A call on images of  *)
(* the data model is rejected only when one of them has 3 bytes per        *)
(* pixel, and then by the RangeError of createDib; every buffer that is    *)
(* returned has the layout its directory declares.                         *)
(***************************************************************************)
OnlyRgbThrows ==
  /\ (ValidInput /\ outState = "rejected") =>
       (outError = "RangeError" /\ \E i \in 1..N : Decoded[i].bpp = 3)
  /\ (ValidInput /\ Settled /\ \A i \in 1..N : Decoded[i].bpp = 4) =>
       outState = "fulfilled"

ReturnedBuffersConsistent ==
  outState = "fulfilled" =>
    /\ Len(outBuf) = ExpOffset(Decoded, N + 1)
    /\ \A i \in 1..N :
         /\ EntryDescribes(outBuf, Decoded, i)
         /\ HeaderDeclares(outBuf, ExpOffset(Decoded, i), Decoded[i])

RgbDibThrows ==
  (fnCall = "createDib" /\ ExactLength(fnImage)) =>
    /\ fnImage.bpp = 3 => fnRet.threw
    /\ fnImage.bpp = 4 => (~fnRet.threw /\ fnRet.buf = ExpDib(fnImage))

=============================================================================
